---- MODULE Spec2Model ----
(***************************************************************************)
(* Session lifecycle of hsynchronous-filesystem-encryption: the            *)
(* orchestrator manageVirtualDrive (index.ts), the helpers of utils.ts,    *)
(* filesystem.ts and cryptography.ts, and the Node.js process around them  *)
(* (exit handler, unhandled rejections, signals).                          *)
(*                                                                         *)
(* Files are byte sequences (naturals 0..255); JavaScript strings are      *)
(* sequences of code points.  A file or folder that does not exist is      *)
(* NoFile.  The working folder is modelled by the bytes of the one file it *)
(* holds (<<>> is the empty folder).                                       *)
(***************************************************************************)
EXTENDS Integers, Sequences, FiniteSets, TLC

\* Number of consecutive processes (sessions) a behaviour may run.
MaxSessions == 2

\* Number of 'data' events standard input may emit in one process.
MaxInputs == 2

NoFile == << -1 >>

Exists(f) == f # NoFile

-----------------------------------------------------------------------------
(* Text encodings used by readFileSync / writeFileSync                     *)

IsCont(b) == b >= 128 /\ b <= 191

RECURSIVE utf8Decode(_)
\* Buffer -> string, 'utf8': an ill-formed byte decodes to U+FFFD (65533).
utf8Decode(bytes) ==
    IF bytes = <<>> THEN <<>>
    ELSE LET b == bytes[1]
             n == Len(bytes)
             rest(k) == SubSeq(bytes, k + 1, n)
         IN  IF b < 128 THEN <<b>> \o utf8Decode(rest(1))
             ELSE IF b >= 194 /\ b <= 223 /\ n >= 2 /\ IsCont(bytes[2])
                  THEN <<(b - 192) * 64 + (bytes[2] - 128)>> \o utf8Decode(rest(2))
             ELSE IF b >= 224 /\ b <= 239 /\ n >= 2 /\ IsCont(bytes[2])
                     /\ (b = 224 => bytes[2] >= 160) /\ (b = 237 => bytes[2] <= 159)
                  THEN IF n >= 3 /\ IsCont(bytes[3])
                       THEN <<(b - 224) * 4096 + (bytes[2] - 128) * 64 + (bytes[3] - 128)>>
                            \o utf8Decode(rest(3))
                       ELSE <<65533>> \o utf8Decode(rest(2))
             ELSE <<65533>> \o utf8Decode(rest(1))

RECURSIVE utf8Encode(_)
\* string -> Buffer, 'utf8'.
utf8Encode(str) ==
    IF str = <<>> THEN <<>>
    ELSE LET c == str[1]
         IN  (IF c < 128 THEN <<c>>
              ELSE IF c < 2048 THEN <<192 + (c \div 64), 128 + (c % 64)>>
              ELSE <<224 + (c \div 4096), 128 + ((c \div 64) % 64), 128 + (c % 64)>>)
             \o utf8Encode(Tail(str))

HexDigit(n) == IF n < 10 THEN 48 + n ELSE 87 + n

HexValue(c) ==
    IF c >= 48 /\ c <= 57 THEN c - 48
    ELSE IF c >= 97 /\ c <= 102 THEN c - 87
    ELSE IF c >= 65 /\ c <= 70 THEN c - 55
    ELSE -1

RECURSIVE hexEncode(_)
\* Buffer -> string, 'hex': two lower-case hex digits per byte.
hexEncode(bytes) ==
    IF bytes = <<>> THEN <<>>
    ELSE <<HexDigit(bytes[1] \div 16), HexDigit(bytes[1] % 16)>> \o hexEncode(Tail(bytes))

RECURSIVE hexDecode(_)
\* string -> Buffer, 'hex': stops at the first pair that is not two hex digits.
hexDecode(str) ==
    IF Len(str) < 2 \/ HexValue(str[1]) < 0 \/ HexValue(str[2]) < 0 THEN <<>>
    ELSE <<HexValue(str[1]) * 16 + HexValue(str[2])>> \o hexDecode(SubSeq(str, 3, Len(str)))

IsWhite(c) == c \in {9, 10, 11, 12, 13, 32, 160, 65279}

RECURSIVE trimStart(_)
trimStart(s) == IF s # <<>> /\ IsWhite(s[1]) THEN trimStart(Tail(s)) ELSE s

RECURSIVE trimEnd(_)
trimEnd(s) ==
    IF s # <<>> /\ IsWhite(s[Len(s)]) THEN trimEnd(SubSeq(s, 1, Len(s) - 1)) ELSE s

\* Mutant of trim: only the leading white space is removed.
trimLeading(s) == trimStart(s)

\* String.prototype.trim
trim(s) == trimEnd(trimStart(s))

-----------------------------------------------------------------------------
(* External collaborators: the cryptography provider (hsynchronous) and the *)
(* archive codec (zip-lib).  Both are opaque to the repository; the model   *)
(* gives them the least structure the callers rely on.                      *)

NoKeyPair == [kemKeyPair |-> <<>>, sigKeyPair |-> <<>>]

\* importKeys(secret): the key pair is a function of the secret.
importKeys(secret) == [kemKeyPair |-> secret, sigKeyPair |-> secret]

\* encrypt(data, keyPair) -> ciphertext string: "C" <key> ":" <data>.
encrypt(msg, kp) == <<67>> \o kp.kemKeyPair \o <<58>> \o msg

\* decrypt(ciphertext, keyPair) -> {message}, or it throws (ok = FALSE) when the
\* ciphertext is malformed or was made under another key.
decrypt(ct, kp) ==
    LET p == <<67>> \o kp.kemKeyPair \o <<58>>
    IN  IF kp # NoKeyPair /\ Len(ct) >= Len(p) /\ SubSeq(ct, 1, Len(p)) = p
        THEN [ok |-> TRUE, message |-> SubSeq(ct, Len(p) + 1, Len(ct))]
        ELSE [ok |-> FALSE, message |-> <<>>]

\* archiveFolder(folder) -> archive bytes: "PK" followed by the folder's content.
archiveFolder(folder) == <<80, 75>> \o folder

\* extract(archive) -> folder content, or it throws on bytes that are no archive.
extract(bytes) ==
    IF Len(bytes) >= 2 /\ bytes[1] = 80 /\ bytes[2] = 75
    THEN [ok |-> TRUE, folder |-> SubSeq(bytes, 3, Len(bytes))]
    ELSE [ok |-> FALSE, folder |-> <<>>]

-----------------------------------------------------------------------------
(* Inputs                                                                   *)

\* Values of the --drive flag (strings of one-character strings).
DriveFlags == { <<"A">>, <<"a", ":">>, <<>>, <<"A", "B">>, <<"1">> }

\* Values of the --file flag, resolved against process.cwd().
FileFlags == { "encrypted", "other" }

\* Contents the user gives the working folder.
FolderContents == { <<>>, <<255>> }

\* Contents of the key file: missing, whitespace only, " k\n".
KeyFiles == { NoFile, <<32>>, <<32, 107, 10>> }

Platforms == { "win32", "linux" }

\* The container a successful session writes for folder content f under secret s.
ContainerOf(f, s) == utf8Encode(encrypt(hexEncode(archiveFolder(f)), importKeys(s)))

\* Containers found at startup: none, written by an earlier session, written
\* under another key, an encryption of the empty message, bytes that are no
\* ciphertext (and no UTF-8 either).
InitialContainers ==
    { NoFile, ContainerOf(<<>>, <<107>>), ContainerOf(<<255>>, <<107>>),
      ContainerOf(<<255>>, <<108>>), utf8Encode(encrypt(<<>>, importKeys(<<107>>))),
      <<67, 255>> }

\* The folder content a container or backup file yields under secret s
\* (NoFile when it yields none).
Recover(bytes, s) ==
    IF ~Exists(bytes) THEN NoFile
    ELSE LET d == decrypt(utf8Decode(bytes), importKeys(s))
             x == extract(hexDecode(d.message))
         IN  IF d.ok /\ d.message # <<>> /\ x.ok THEN x.folder ELSE NoFile

-----------------------------------------------------------------------------
(* State                                                                    *)

VARIABLES
    os,                   \* platform() of the host
    DRIVE_LETTER,         \* CONFIG.DRIVE_LETTER
    ENCRYPTED_FILE_PATH,  \* CONFIG.ENCRYPTED_FILE_PATH, resolved against cwd
    fs,                   \* the disk: path -> bytes, or NoFile
    mounted,              \* the subst mapping DRIVE_LETTER: -> working folder exists
    pc,                   \* position of the process in manageVirtualDrive
    exitCode,             \* process exit code, -1 while running or when killed
    encryptionKey,        \* local variable encryptionKey
    keyPair,              \* local variable keyPair
    data,                 \* encryptCompressVirtualDrive: the archive read as text
    encryptedData,        \* encryptCompressVirtualDrive: the provider's result
    pendingRejection,     \* a rejected promise nobody awaits (createBackup)
    session,              \* number of the running process
    steps,                \* steps this process completed, in order
    failures,             \* steps of this process that failed, as tuples
    cmds,                 \* external commands this process issued
    startFs,              \* the disk when this process started
    committed,            \* folder content of the last container written whole
    archived,             \* the archive encryptCompressVirtualDrive last read, and
                          \* whether the file at encryptedFilePath is its ciphertext
    log,                  \* messages this process printed to the console
    calls,                \* calls this process made on the secret and the key pair
    inputEvents,          \* 'data' events standard input has emitted in the running process
    handover              \* the working folder when this process unmounted it, and
                          \* when the previous process did if that one exited with 0

cfgVars  == <<os, DRIVE_LETTER, ENCRYPTED_FILE_PATH>>
diskVars == <<fs, mounted>>
memVars  == <<encryptionKey, keyPair, data, encryptedData>>
histVars == <<session, startFs, committed, archived>>
quietVars == <<calls, inputEvents, handover>>
vars == <<os, DRIVE_LETTER, ENCRYPTED_FILE_PATH, fs, mounted, pc, exitCode,
          encryptionKey, keyPair, data, encryptedData, pendingRejection,
          session, steps, failures, cmds, startFs, committed, archived, log,
          calls, inputEvents, handover>>

\* CONFIG.MOUNT_FOLDER_PATH, CONFIG.ZIP_FILE_NAME, CONFIG.KEY_FILE_PATH
MOUNT_FOLDER_PATH == "tmp"
ZIP_FILE_NAME == "tmp.zip"
KEY_FILE_PATH == "key.txt"

Paths == { KEY_FILE_PATH, MOUNT_FOLDER_PATH, ZIP_FILE_NAME,
           "encrypted", "encrypted.bak", "other", "other.bak" }

\* `${filePath}.bak`
backupFileName(filePath) == IF filePath = "encrypted" THEN "encrypted.bak" ELSE "other.bak"

\* The secret the user keeps in the key file.
UserSecret == <<107>>

-----------------------------------------------------------------------------
(* index.ts: configuration                                                  *)

toUpperCase(c) == IF c = "a" THEN "A" ELSE IF c = "b" THEN "B" ELSE c

RECURSIVE replaceFirstColon(_)
\* String.prototype.replace(':', ''): removes the first ':' only.
replaceFirstColon(s) ==
    IF s = <<>> THEN <<>>
    ELSE IF s[1] = ":" THEN Tail(s)
    ELSE <<s[1]>> \o replaceFirstColon(Tail(s))

\* flags.drive.toUpperCase().replace(':', '') || 'A'
driveLetter(flag) ==
    LET u == [i \in 1..Len(flag) |-> toUpperCase(flag[i])]
        r == replaceFirstColon(u)
    IN  IF r = <<>> THEN <<"A">> ELSE r

\* Mutant of validDriveLetter: the pattern without its end anchor, /^[A-Z]/.
validDriveLetterUnanchored(l) == Len(l) >= 1 /\ l[1] \in {"A", "B", "C", "D", "E", "Z"}

\* /^[A-Z]$/.test(CONFIG.DRIVE_LETTER)
validDriveLetter(l) == Len(l) = 1 /\ l[1] \in {"A", "B", "C", "D", "E", "Z"}

-----------------------------------------------------------------------------
(* utils.ts                                                                 *)

\* secureWipe(data): the loop assigns random strings to its own parameter; the
\* value the caller holds is the value it passed.
secureWipe(value) == value

\* Mutant of loadKey: the text of the key file is not trimmed.
loadKeyUntrimmed(disk, readOk) ==
    IF ~Exists(disk[KEY_FILE_PATH]) \/ ~readOk THEN [ok |-> FALSE, key |-> <<>>]
    ELSE LET keyData == utf8Decode(disk[KEY_FILE_PATH])
         IN  [ok |-> keyData # <<>>, key |-> keyData]

\* loadKey(KEYFILE): the trimmed text of the key file; throws when the file is
\* missing, unreadable or empty after trimming.
loadKey(disk, readOk) ==
    IF ~Exists(disk[KEY_FILE_PATH]) \/ ~readOk THEN [ok |-> FALSE, key |-> <<>>]
    ELSE LET trimmedKey == trim(utf8Decode(disk[KEY_FILE_PATH]))
         IN  [ok |-> trimmedKey # <<>>, key |-> trimmedKey]

\* Mutant of createBackup: without the existsSync check the read of a missing
\* file throws.
createBackupUnchecked(disk, filePath, ioOk) ==
    IF ~Exists(disk[filePath]) \/ ~ioOk THEN [ok |-> FALSE, fs |-> disk]
    ELSE LET fileContent == utf8Decode(disk[filePath])
         IN  [ok |-> TRUE,
              fs |-> [disk EXCEPT ![backupFileName(filePath)] = utf8Encode(fileContent)]]

\* createBackup(filePath): copies the file, read and written as 'utf8' text, to
\* filePath.bak; returns without a backup when the file does not exist.
createBackup(disk, filePath, ioOk) ==
    IF ~Exists(disk[filePath]) THEN [ok |-> TRUE, fs |-> disk]
    ELSE IF ~ioOk THEN [ok |-> FALSE, fs |-> disk]
    ELSE LET fileContent == utf8Decode(disk[filePath])
         IN  [ok |-> TRUE,
              fs |-> [disk EXCEPT ![backupFileName(filePath)] = utf8Encode(fileContent)]]

\* Mutant of deleteBackup: reports success without removing the backup.
deleteBackupKeeps(disk, filePath, ioOk) == [ok |-> TRUE, fs |-> disk]

\* deleteBackup(filePath): removes filePath.bak when it exists.
deleteBackup(disk, filePath, ioOk) ==
    IF ~Exists(disk[backupFileName(filePath)]) THEN [ok |-> TRUE, fs |-> disk]
    ELSE IF ~ioOk THEN [ok |-> FALSE, fs |-> disk]
    ELSE [ok |-> TRUE, fs |-> [disk EXCEPT ![backupFileName(filePath)] = NoFile]]

\* Mutant of cleanup: one try/catch around the three sub-steps, so a failed
\* removal of the working folder ends the cleanup.
cleanupStopping(disk, isMounted, platform, rmFolderOk, rmZipOk, cmdOk) ==
    IF Exists(disk[MOUNT_FOLDER_PATH]) /\ ~rmFolderOk
    THEN [fs |-> disk, mounted |-> isMounted, cmds |-> {}, logged |-> {},
          failed |-> {"rmFolder"}]
    ELSE LET d1 == [disk EXCEPT ![MOUNT_FOLDER_PATH] = NoFile]
             d2 == IF Exists(d1[ZIP_FILE_NAME]) /\ rmZipOk
                   THEN [d1 EXCEPT ![ZIP_FILE_NAME] = NoFile] ELSE d1
         IN  [fs |-> d2,
              mounted |-> IF platform = "win32" /\ cmdOk THEN FALSE ELSE isMounted,
              cmds |-> IF platform = "win32" THEN {"subst /D"} ELSE {},
              logged |-> IF platform = "win32" /\ isMounted /\ cmdOk
                         THEN {"Successfully unmounted drive"} ELSE {},
              failed |-> (IF Exists(d1[ZIP_FILE_NAME]) /\ ~rmZipOk THEN {"rmZip"} ELSE {})
                         \cup (IF platform = "win32" /\ isMounted /\ ~cmdOk
                               THEN {"unmount"} ELSE {})]

\* Mutant of cleanup: the working folder is not removed, only the archive and
\* the volume mapping are.
cleanupKeepingFolder(disk, isMounted, platform, rmFolderOk, rmZipOk, cmdOk) ==
    LET d2 == IF Exists(disk[ZIP_FILE_NAME]) /\ rmZipOk
              THEN [disk EXCEPT ![ZIP_FILE_NAME] = NoFile] ELSE disk
    IN  [fs |-> d2,
         mounted |-> IF platform = "win32" /\ cmdOk THEN FALSE ELSE isMounted,
         cmds |-> IF platform = "win32" THEN {"subst /D"} ELSE {},
         logged |-> IF platform = "win32" /\ isMounted /\ cmdOk
                    THEN {"Successfully unmounted drive"} ELSE {},
         failed |-> (IF Exists(disk[ZIP_FILE_NAME]) /\ ~rmZipOk THEN {"rmZip"} ELSE {})
                    \cup (IF platform = "win32" /\ isMounted /\ ~cmdOk THEN {"unmount"} ELSE {})]

\* Mutant of cleanup: the backup files are taken for leftovers and removed
\* with the archive.
cleanupRemovingBackup(disk, isMounted, platform, rmFolderOk, rmZipOk, cmdOk) ==
    LET d1 == IF Exists(disk[MOUNT_FOLDER_PATH]) /\ rmFolderOk
              THEN [disk EXCEPT ![MOUNT_FOLDER_PATH] = NoFile] ELSE disk
        d2 == IF Exists(d1[ZIP_FILE_NAME]) /\ rmZipOk
              THEN [d1 EXCEPT ![ZIP_FILE_NAME] = NoFile,
                              !["encrypted.bak"] = NoFile, !["other.bak"] = NoFile]
              ELSE d1
    IN  [fs |-> d2,
         mounted |-> IF platform = "win32" /\ cmdOk THEN FALSE ELSE isMounted,
         cmds |-> IF platform = "win32" THEN {"subst /D"} ELSE {},
         logged |-> IF platform = "win32" /\ isMounted /\ cmdOk
                    THEN {"Successfully unmounted drive"} ELSE {},
         failed |-> (IF Exists(disk[MOUNT_FOLDER_PATH]) /\ ~rmFolderOk THEN {"rmFolder"} ELSE {})
                    \cup (IF Exists(d1[ZIP_FILE_NAME]) /\ ~rmZipOk THEN {"rmZip"} ELSE {})
                    \cup (IF platform = "win32" /\ isMounted /\ ~cmdOk THEN {"unmount"} ELSE {})]

\* Mutant of cleanup: the archive is looked at only when there was no working
\* folder to remove (else-if instead of two independent blocks).
cleanupFolderOrZip(disk, isMounted, platform, rmFolderOk, rmZipOk, cmdOk) ==
    LET d1 == IF Exists(disk[MOUNT_FOLDER_PATH]) /\ rmFolderOk
              THEN [disk EXCEPT ![MOUNT_FOLDER_PATH] = NoFile] ELSE disk
        d2 == IF ~Exists(disk[MOUNT_FOLDER_PATH]) /\ Exists(d1[ZIP_FILE_NAME]) /\ rmZipOk
              THEN [d1 EXCEPT ![ZIP_FILE_NAME] = NoFile] ELSE d1
    IN  [fs |-> d2,
         mounted |-> IF platform = "win32" /\ cmdOk THEN FALSE ELSE isMounted,
         cmds |-> IF platform = "win32" THEN {"subst /D"} ELSE {},
         logged |-> IF platform = "win32" /\ isMounted /\ cmdOk
                    THEN {"Successfully unmounted drive"} ELSE {},
         failed |-> (IF Exists(disk[MOUNT_FOLDER_PATH]) /\ ~rmFolderOk THEN {"rmFolder"} ELSE {})
                    \cup (IF ~Exists(disk[MOUNT_FOLDER_PATH]) /\ Exists(d1[ZIP_FILE_NAME])
                             /\ ~rmZipOk
                          THEN {"rmZip"} ELSE {})
                    \cup (IF platform = "win32" /\ isMounted /\ ~cmdOk THEN {"unmount"} ELSE {})]

\* cleanup(DRIVE_LETTER, FOLDER_PATH, ZIP_FILE): removes the working folder and
\* the archive when they exist and, on win32, runs `subst X: /D`; each of the
\* three has its own try/catch.  The result names the sub-steps that failed.
cleanup(disk, isMounted, platform, rmFolderOk, rmZipOk, cmdOk) ==
    LET d1 == IF Exists(disk[MOUNT_FOLDER_PATH]) /\ rmFolderOk
              THEN [disk EXCEPT ![MOUNT_FOLDER_PATH] = NoFile] ELSE disk
        d2 == IF Exists(d1[ZIP_FILE_NAME]) /\ rmZipOk
              THEN [d1 EXCEPT ![ZIP_FILE_NAME] = NoFile] ELSE d1
    IN  [fs |-> d2,
         mounted |-> IF platform = "win32" /\ cmdOk THEN FALSE ELSE isMounted,
         cmds |-> IF platform = "win32" THEN {"subst /D"} ELSE {},
         logged |-> IF platform = "win32" /\ isMounted /\ cmdOk
                    THEN {"Successfully unmounted drive"} ELSE {},
         failed |-> (IF Exists(disk[MOUNT_FOLDER_PATH]) /\ ~rmFolderOk THEN {"rmFolder"} ELSE {})
                    \cup (IF Exists(d1[ZIP_FILE_NAME]) /\ ~rmZipOk THEN {"rmZip"} ELSE {})
                    \cup (IF platform = "win32" /\ isMounted /\ ~cmdOk THEN {"unmount"} ELSE {})]

-----------------------------------------------------------------------------
(* cryptography.ts                                                          *)

\* join(__dirname, '../', 'encrypted'): where encryptCompressVirtualDrive writes.
encryptedFilePath == "encrypted"

\* Mutant of decryptVirtualDrive: a failed decryption discards the container.
decryptVirtualDriveDiscarding(disk, kp, ENCRYPTED_FILE, ioOk) ==
    LET decryptedData == decrypt(utf8Decode(disk[ENCRYPTED_FILE]), kp)
    IN  IF ~decryptedData.ok \/ decryptedData.message = <<>> \/ ~ioOk
        THEN [ok |-> FALSE, fs |-> [disk EXCEPT ![ENCRYPTED_FILE] = NoFile]]
        ELSE [ok |-> TRUE,
              fs |-> [disk EXCEPT ![ZIP_FILE_NAME] = hexDecode(decryptedData.message)]]

\* decryptVirtualDrive(KEYPAIR, ZIP_FILE, ENCRYPTED_FILE): reads the container
\* as 'utf8' text, decrypts it and writes the message, taken as 'hex', to the
\* archive; throws when the provider throws, when the message is empty or when
\* the write fails.  It only reads the container.
decryptVirtualDrive(disk, kp, ENCRYPTED_FILE, ioOk) ==
    LET decryptedData == decrypt(utf8Decode(disk[ENCRYPTED_FILE]), kp)
    IN  IF ~decryptedData.ok \/ decryptedData.message = <<>> \/ ~ioOk
        THEN [ok |-> FALSE, fs |-> disk]
        ELSE [ok |-> TRUE,
              fs |-> [disk EXCEPT ![ZIP_FILE_NAME] = hexDecode(decryptedData.message)]]

\* Mutant of encryptReadArchive: the archive is read as 'utf8' text.
encryptReadArchiveUtf8(disk, ioOk) ==
    IF ~Exists(disk[ZIP_FILE_NAME]) \/ ~ioOk
    THEN [ok |-> FALSE, fs |-> disk, data |-> <<>>]
    ELSE [ok |-> TRUE, fs |-> [disk EXCEPT ![ZIP_FILE_NAME] = NoFile],
          data |-> utf8Decode(disk[ZIP_FILE_NAME])]

\* encryptCompressVirtualDrive, lines 141-154: reads the archive as 'hex' text
\* and removes it.
encryptReadArchive(disk, ioOk) ==
    IF ~Exists(disk[ZIP_FILE_NAME]) \/ ~ioOk
    THEN [ok |-> FALSE, fs |-> disk, data |-> <<>>]
    ELSE [ok |-> TRUE, fs |-> [disk EXCEPT ![ZIP_FILE_NAME] = NoFile],
          data |-> hexEncode(disk[ZIP_FILE_NAME])]

-----------------------------------------------------------------------------
(* filesystem.ts                                                            *)

\* Mutant of compressVirtualDrive: without the existsSync check a missing
\* folder is archived as an empty one.
compressVirtualDriveUnchecked(disk, ioOk) ==
    IF ~ioOk THEN [ok |-> FALSE, fs |-> disk]
    ELSE [ok |-> TRUE,
          fs |-> [disk EXCEPT ![ZIP_FILE_NAME] =
                     archiveFolder(IF Exists(disk[MOUNT_FOLDER_PATH])
                                   THEN disk[MOUNT_FOLDER_PATH] ELSE <<>>)]]

\* compressVirtualDrive(ZIP_FILE, FOLDER_PATH): throws when the folder does not
\* exist, else writes the archive of the folder.
compressVirtualDrive(disk, ioOk) ==
    IF ~Exists(disk[MOUNT_FOLDER_PATH]) \/ ~ioOk THEN [ok |-> FALSE, fs |-> disk]
    ELSE [ok |-> TRUE,
          fs |-> [disk EXCEPT ![ZIP_FILE_NAME] = archiveFolder(disk[MOUNT_FOLDER_PATH])]]

\* deleteVirtualDrive(FOLDER_PATH): removes the folder when it exists.
deleteVirtualDrive(disk, ioOk) ==
    IF ~Exists(disk[MOUNT_FOLDER_PATH]) THEN [ok |-> TRUE, fs |-> disk]
    ELSE IF ~ioOk THEN [ok |-> FALSE, fs |-> disk]
    ELSE [ok |-> TRUE, fs |-> [disk EXCEPT ![MOUNT_FOLDER_PATH] = NoFile]]

-----------------------------------------------------------------------------
(* The process                                                              *)

NoExit == -1

BeforeSignal == { "validate", "cleanup", "loadKey", "createBackup", "createVirtualDrive",
                  "removeEncrypted", "extract", "removeZip", "mkdir", "mount", "open" }
AfterSignal  == { "unmount", "compress", "deleteVirtualDrive", "reloadKey",
                  "encryptRead", "encrypt", "encryptOpen", "encryptWrite",
                  "deleteBackup", "exit0" }
Running  == BeforeSignal \cup {"await"} \cup AfterSignal \cup {"rejected"}
Terminal == { "exited", "killed" }

Init ==
    /\ os \in Platforms
    /\ \E flag \in DriveFlags : DRIVE_LETTER = driveLetter(flag)
    /\ ENCRYPTED_FILE_PATH \in FileFlags
    /\ \E k \in KeyFiles, c \in InitialContainers :
         /\ fs = [p \in Paths |-> IF p = KEY_FILE_PATH THEN k
                                  ELSE IF p = ENCRYPTED_FILE_PATH THEN c ELSE NoFile]
         /\ committed = Recover(c, UserSecret)
    /\ mounted = FALSE
    /\ pc = "validate"
    /\ exitCode = NoExit
    /\ encryptionKey = <<>>
    /\ keyPair = NoKeyPair
    /\ data = <<>>
    /\ encryptedData = <<>>
    /\ pendingRejection = FALSE
    /\ session = 1
    /\ steps = <<>>
    /\ failures = {}
    /\ cmds = {}
    /\ startFs = fs
    /\ archived = [bytes |-> NoFile, whole |-> FALSE]
    /\ log = {}
    /\ calls = <<>>
    /\ inputEvents = 0
    /\ handover = [folder |-> NoFile, last |-> NoFile]

\* What a step prints when it returns: filesystem.ts 26 and 120, index.ts 81 and 88.
onSuccess(step) ==
    CASE step = "unmount" -> {"Virtual drive unmounted successfully"}
      [] step = "open" -> {"Opened virtual drive", "Press Enter to unmount and encrypt"}
      [] step = "deleteVirtualDrive" -> {"Virtual drive unmounted and compressed"}
      [] OTHER -> {}

\* What a step prints in its own catch block before it rethrows.
onFailure(step) ==
    CASE step = "loadKey" -> {"Key loading error:"}
      [] step = "reloadKey" -> {"Key loading error:"}
      [] step = "mkdir" -> {}
      [] step = "mount" -> {"Error creating virtual drive:"}
      [] step = "open" -> {"Error opening virtual drive:"}
      [] step = "unmount" -> {"Error unmounting virtual drive:"}
      [] step = "deleteVirtualDrive" -> {"Error deleting virtual drive:"}
      [] OTHER -> {}

\* A step returned: the orchestrator goes on to the next one.
Done(step, next) ==
    /\ pc' = next
    /\ steps' = Append(steps, step)
    /\ log' = log \cup onSuccess(step)
    /\ UNCHANGED <<exitCode, failures>>

\* A step threw.  Before the signal the error reaches manageVirtualDrive().catch,
\* which calls process.exit(1); in the stdin callback it rejects a promise that
\* nobody holds.
Throw(step) ==
    /\ failures' = failures \cup {<<step>>}
    /\ steps' = steps
    /\ IF pc \in AfterSignal
       THEN /\ pc' = "rejected"
            /\ exitCode' = exitCode
            /\ log' = log \cup onFailure(step)
       ELSE /\ pc' = "exiting"
            /\ exitCode' = 1
            /\ log' = log \cup onFailure(step) \cup {"Script error:"}

\* index.ts 41-51: configuration validation.
Validate ==
    /\ pc = "validate"
    /\ IF validDriveLetter(DRIVE_LETTER)
       THEN Done("validate", "cleanup")
       ELSE /\ pc' = "exiting"
            /\ exitCode' = 1
            /\ failures' = failures \cup {<<"validate">>}
            /\ steps' = steps
            /\ log' = log \cup {"Error: Invalid drive letter"}
    /\ UNCHANGED <<cfgVars, quietVars, diskVars, memVars, histVars, pendingRejection, cmds>>

\* Mutant of StartupCleanup: a failed unmount command inside cleanup is thrown
\* to the orchestrator.
StartupCleanupFatal ==
    /\ pc = "cleanup"
    /\ \E rmFolderOk \in BOOLEAN, rmZipOk \in BOOLEAN, cmdOk \in BOOLEAN :
         LET r == cleanup(fs, mounted, os, rmFolderOk, rmZipOk, cmdOk)
         IN  /\ fs' = r.fs
             /\ mounted' = r.mounted
             /\ cmds' = cmds \cup r.cmds
             /\ failures' = failures \cup {<<"cleanup", f>> : f \in r.failed}
             /\ log' = log \cup r.logged
             /\ IF "unmount" \in r.failed
                THEN pc' = "exiting" /\ exitCode' = 1 /\ steps' = steps
                ELSE pc' = "loadKey" /\ exitCode' = exitCode /\ steps' = Append(steps, "cleanup")
    /\ UNCHANGED <<cfgVars, quietVars, memVars, histVars, pendingRejection>>

\* index.ts 53-57: await cleanup(...)
StartupCleanup ==
    /\ pc = "cleanup"
    /\ \E rmFolderOk \in BOOLEAN, rmZipOk \in BOOLEAN, cmdOk \in BOOLEAN :
         LET r == cleanup(fs, mounted, os, rmFolderOk, rmZipOk, cmdOk)
         IN  /\ fs' = r.fs
             /\ mounted' = r.mounted
             /\ cmds' = cmds \cup r.cmds
             /\ failures' = failures \cup {<<"cleanup", f>> : f \in r.failed}
             /\ log' = log \cup r.logged
    /\ pc' = "loadKey"
    /\ steps' = Append(steps, "cleanup")
    /\ UNCHANGED <<cfgVars, quietVars, memVars, histVars, pendingRejection, exitCode>>

\* index.ts 60-62 and 91-93: loadKey, secureWipe, importKeys.
LoadKeyAt(here, next) ==
    /\ pc = here
    /\ \E readOk \in BOOLEAN :
         LET r == loadKey(fs, readOk)
         IN  IF r.ok
             THEN /\ encryptionKey' = secureWipe(r.key)
                  /\ keyPair' = importKeys(encryptionKey')
                  /\ calls' = calls \o <<"loadKey", "secureWipe(encryptionKey)",
                                         "importKeys(encryptionKey)">>
                  /\ Done(here, next)
             ELSE /\ Throw(here)
                  /\ calls' = Append(calls, "loadKey")
                  /\ UNCHANGED <<encryptionKey, keyPair>>
    /\ UNCHANGED <<cfgVars, inputEvents, handover, diskVars, data, encryptedData, histVars,
                   pendingRejection, cmds>>

LoadKey == LoadKeyAt("loadKey", "createBackup")

\* index.ts 64: createBackup(CONFIG.ENCRYPTED_FILE_PATH), not awaited: the
\* call runs to its end, and a failure is a rejected promise nobody holds.
CreateBackup ==
    /\ pc = "createBackup"
    /\ \E ioOk \in BOOLEAN :
         LET r == createBackup(fs, ENCRYPTED_FILE_PATH, ioOk)
         IN  /\ fs' = r.fs
             /\ pendingRejection' = ~r.ok
             /\ failures' = IF r.ok THEN failures ELSE failures \cup {<<"createBackup">>}
             /\ log' = IF r.ok THEN log ELSE log \cup {"Backup Error:"}
    /\ pc' = "createVirtualDrive"
    /\ steps' = Append(steps, "createBackup")
    /\ UNCHANGED <<cfgVars, quietVars, mounted, memVars, histVars, exitCode, cmds>>

\* Mutant of DecryptContainer: a failed decryption is swallowed and the drive
\* is created all the same.
DecryptContainerSwallowing ==
    /\ pc = "createVirtualDrive"
    /\ IF Exists(fs[ENCRYPTED_FILE_PATH])
       THEN \E ioOk \in BOOLEAN :
              LET r == decryptVirtualDrive(fs, keyPair, ENCRYPTED_FILE_PATH, ioOk)
              IN  /\ fs' = r.fs
                  /\ keyPair' = secureWipe(keyPair)
                  /\ calls' = calls \o (IF r.ok THEN <<"decrypt(keyPair)", "secureWipe(keyPair)",
                                                      "secureWipe(keyPair)">>
                                        ELSE <<"decrypt(keyPair)">>)
                  /\ IF ~r.ok
                     THEN /\ pc' = "mkdir"
                          /\ failures' = failures \cup {<<"decrypt">>}
                          /\ UNCHANGED <<steps, exitCode, log>>
                     ELSE Done("decrypt", "removeEncrypted")
       ELSE /\ pc' = "mkdir"
            /\ UNCHANGED <<fs, keyPair, steps, failures, exitCode, log, calls>>
    /\ UNCHANGED <<cfgVars, inputEvents, handover, mounted, encryptionKey, data, encryptedData, histVars,
                   pendingRejection, cmds>>

\* filesystem.ts 50-58: createVirtualDrive up to the archive check.  With no
\* container at ENCRYPTED_FILE it goes straight to the folder creation.
DecryptContainer ==
    /\ pc = "createVirtualDrive"
    /\ IF Exists(fs[ENCRYPTED_FILE_PATH])
       THEN \E ioOk \in BOOLEAN :
              LET r == decryptVirtualDrive(fs, keyPair, ENCRYPTED_FILE_PATH, ioOk)
              IN  /\ fs' = r.fs
                  /\ keyPair' = secureWipe(keyPair)
                  /\ calls' = calls \o (IF r.ok THEN <<"decrypt(keyPair)", "secureWipe(keyPair)",
                                                      "secureWipe(keyPair)">>
                                        ELSE <<"decrypt(keyPair)">>)
                  /\ IF ~r.ok THEN Throw("decrypt")
                     ELSE IF ~Exists(r.fs[ZIP_FILE_NAME]) THEN Throw("archiveMissing")
                     ELSE Done("decrypt", "removeEncrypted")
       ELSE /\ pc' = "mkdir"
            /\ UNCHANGED <<fs, keyPair, steps, failures, exitCode, log, calls>>
    /\ UNCHANGED <<cfgVars, inputEvents, handover, mounted, encryptionKey, data, encryptedData, histVars,
                   pendingRejection, cmds>>

\* filesystem.ts 61: rmSync(encryptedFilePath, { force: true })
RemoveEncrypted ==
    /\ pc = "removeEncrypted"
    /\ \E ioOk \in BOOLEAN :
         IF ioOk
         THEN /\ fs' = [fs EXCEPT ![ENCRYPTED_FILE_PATH] = NoFile]
              /\ archived' = IF ENCRYPTED_FILE_PATH = encryptedFilePath
                              THEN [archived EXCEPT !.whole = FALSE] ELSE archived
              /\ Done("removeEncrypted", "extract")
         ELSE /\ fs' = fs
              /\ archived' = archived
              /\ Throw("removeEncrypted")
    /\ UNCHANGED <<cfgVars, quietVars, mounted, memVars, session, startFs, committed,
                   pendingRejection, cmds>>

\* filesystem.ts 64: await extract(zipFilePath, fullPath).  The entries of the
\* archive are written into the folder; a folder that is already there keeps
\* what the archive does not replace, so an archive without entries leaves it
\* as it is.
Extract ==
    /\ pc = "extract"
    /\ \E ioOk \in BOOLEAN :
         LET x == extract(fs[ZIP_FILE_NAME])
         IN  IF Exists(fs[ZIP_FILE_NAME]) /\ x.ok /\ ioOk
             THEN /\ fs' = [fs EXCEPT ![MOUNT_FOLDER_PATH] =
                               IF Exists(fs[MOUNT_FOLDER_PATH]) /\ x.folder = <<>>
                               THEN fs[MOUNT_FOLDER_PATH] ELSE x.folder]
                  /\ Done("extract", "removeZip")
             ELSE /\ fs' = fs
                  /\ Throw("extract")
    /\ UNCHANGED <<cfgVars, quietVars, mounted, memVars, histVars, pendingRejection, cmds>>

\* filesystem.ts 68: rmSync(zipFilePath, { force: true })
RemoveZip ==
    /\ pc = "removeZip"
    /\ \E ioOk \in BOOLEAN :
         IF ioOk
         THEN /\ fs' = [fs EXCEPT ![ZIP_FILE_NAME] = NoFile]
              /\ Done("removeZip", "mkdir")
         ELSE /\ fs' = fs
              /\ Throw("removeZip")
    /\ UNCHANGED <<cfgVars, quietVars, mounted, memVars, histVars, pendingRejection, cmds>>

\* Mutant of Mkdir: the folder is created without the existsSync check and
\* without `recursive`, which fails on a folder that exists.
MkdirUnchecked ==
    /\ pc = "mkdir"
    /\ \E ioOk \in BOOLEAN :
         IF ~Exists(fs[MOUNT_FOLDER_PATH]) /\ ioOk
         THEN fs' = [fs EXCEPT ![MOUNT_FOLDER_PATH] = <<>>] /\ Done("mkdir", "mount")
         ELSE fs' = fs /\ Throw("mkdir")
    /\ UNCHANGED <<cfgVars, quietVars, mounted, memVars, histVars, pendingRejection, cmds>>

\* filesystem.ts 71-73: mkdirSync(fullPath, { recursive: true }) when absent.
Mkdir ==
    /\ pc = "mkdir"
    /\ \E ioOk \in BOOLEAN :
         IF Exists(fs[MOUNT_FOLDER_PATH])
         THEN fs' = fs /\ Done("mkdir", "mount")
         ELSE IF ioOk
              THEN fs' = [fs EXCEPT ![MOUNT_FOLDER_PATH] = <<>>] /\ Done("mkdir", "mount")
              ELSE fs' = fs /\ Throw("mkdir")
    /\ UNCHANGED <<cfgVars, quietVars, mounted, memVars, histVars, pendingRejection, cmds>>

\* filesystem.ts 75-87: `subst X: "folder"` on win32, else Unsupported platform.
\* subst fails on a drive letter that is already mapped.
Mount ==
    /\ pc = "mount"
    /\ IF os = "win32"
       THEN /\ cmds' = cmds \cup {"subst"}
            /\ \E cmdOk \in BOOLEAN :
                 IF cmdOk /\ ~mounted
                 THEN mounted' = TRUE /\ Done("mount", "open")
                 ELSE mounted' = mounted /\ Throw("mount")
       ELSE /\ Throw("mount")
            /\ UNCHANGED <<cmds, mounted>>
    /\ keyPair' = IF pc' = "open" THEN secureWipe(keyPair) ELSE keyPair
    /\ calls' = IF pc' = "open" THEN Append(calls, "secureWipe(keyPair)") ELSE calls
    /\ UNCHANGED <<cfgVars, inputEvents, handover, fs, encryptionKey, data, encryptedData, histVars,
                   pendingRejection>>

\* filesystem.ts 114-129: openVirtualDrive, `start X:` on win32.
Open ==
    /\ pc = "open"
    /\ IF os = "win32"
       THEN /\ cmds' = cmds \cup {"start"}
            /\ \E cmdOk \in BOOLEAN :
                 IF cmdOk THEN Done("open", "await") ELSE Throw("open")
       ELSE /\ Throw("open")
            /\ cmds' = cmds
    /\ UNCHANGED <<cfgVars, quietVars, diskVars, memVars, histVars, pendingRejection>>

\* The user changes the content of the mounted volume.
UserEdit ==
    /\ pc = "await"
    /\ mounted
    /\ Exists(fs[MOUNT_FOLDER_PATH])
    /\ \E c \in FolderContents \ {fs[MOUNT_FOLDER_PATH]} :
         fs' = [fs EXCEPT ![MOUNT_FOLDER_PATH] = c]
    /\ UNCHANGED <<cfgVars, quietVars, mounted, memVars, histVars, pendingRejection, cmds,
                   pc, steps, failures, exitCode, log>>

\* Mutant of UserSignal: the stdin listener is registered before the drive is
\* opened, so the signal can be taken while openVirtualDrive is still to run.
UserSignalEarly ==
    /\ pc \in {"open", "await"}
    /\ inputEvents' = 1
    /\ Done("signal", "unmount")
    /\ UNCHANGED <<cfgVars, calls, handover, diskVars, memVars, histVars, pendingRejection,
                   cmds>>

\* index.ts 83: process.stdin.once('data', ...) fires on the first 'data' event
\* of standard input.  Standard input is not read before the listener is
\* registered, so what was typed earlier is delivered as that first event.
UserSignal ==
    /\ pc = "await"
    /\ inputEvents' = 1
    /\ Done("signal", "unmount")
    /\ UNCHANGED <<cfgVars, calls, handover, diskVars, memVars, histVars, pendingRejection,
                   cmds>>

\* Mutant of ExtraInput: the listener is registered with `on`, so a later
\* 'data' event starts the teardown again.
ExtraInputRestarting ==
    /\ pc \in AfterSignal \cup {"rejected"}
    /\ inputEvents < MaxInputs
    /\ inputEvents' = inputEvents + 1
    /\ Done("signal", "unmount")
    /\ UNCHANGED <<cfgVars, calls, handover, diskVars, memVars, histVars, pendingRejection,
                   cmds>>

\* index.ts 83: a further 'data' event of standard input.  `once` has removed
\* the listener when the first event was delivered, so nobody receives it.
ExtraInput ==
    /\ pc \in AfterSignal \cup {"rejected"}
    /\ inputEvents < MaxInputs
    /\ inputEvents' = inputEvents + 1
    /\ UNCHANGED <<cfgVars, calls, handover, diskVars, memVars, histVars, pendingRejection,
                   cmds, pc, steps, failures, exitCode, log>>

\* The user removes the working folder itself while the process waits.
UserRemovesFolder ==
    /\ pc = "await"
    /\ Exists(fs[MOUNT_FOLDER_PATH])
    /\ fs' = [fs EXCEPT ![MOUNT_FOLDER_PATH] = NoFile]
    /\ UNCHANGED <<cfgVars, quietVars, mounted, memVars, histVars, pendingRejection, cmds,
                   pc, steps, failures, exitCode, log>>

\* Mutant of Unmount: a failed unmount command is reported and the teardown
\* goes on.
UnmountSwallowing ==
    /\ pc = "unmount"
    /\ IF os = "win32"
       THEN /\ cmds' = cmds \cup {"subst /D"}
            /\ \E cmdOk \in BOOLEAN :
                 IF cmdOk /\ mounted
                 THEN /\ mounted' = FALSE
                      /\ handover' = [handover EXCEPT !.folder = fs[MOUNT_FOLDER_PATH]]
                      /\ Done("unmount", "compress")
                 ELSE /\ mounted' = mounted
                      /\ handover' = handover
                      /\ pc' = "compress"
                      /\ failures' = failures \cup {<<"unmount">>}
                      /\ log' = log \cup onFailure("unmount")
                      /\ UNCHANGED <<steps, exitCode>>
       ELSE /\ Throw("unmount")
            /\ UNCHANGED <<cmds, mounted, handover>>
    /\ UNCHANGED <<cfgVars, calls, inputEvents, fs, memVars, histVars, pendingRejection>>

\* filesystem.ts 19-35: unmountVirtualDrive, `subst X: /D` on win32.
Unmount ==
    /\ pc = "unmount"
    /\ IF os = "win32"
       THEN /\ cmds' = cmds \cup {"subst /D"}
            /\ \E cmdOk \in BOOLEAN :
                 IF cmdOk /\ mounted
                 THEN /\ mounted' = FALSE
                      /\ handover' = [handover EXCEPT !.folder = fs[MOUNT_FOLDER_PATH]]
                      /\ Done("unmount", "compress")
                 ELSE mounted' = mounted /\ handover' = handover /\ Throw("unmount")
       ELSE /\ Throw("unmount")
            /\ UNCHANGED <<cmds, mounted, handover>>
    /\ UNCHANGED <<cfgVars, calls, inputEvents, fs, memVars, histVars, pendingRejection>>

\* index.ts 85: await compressVirtualDrive(...)
Compress ==
    /\ pc = "compress"
    /\ \E ioOk \in BOOLEAN :
         LET r == compressVirtualDrive(fs, ioOk)
         IN  /\ fs' = r.fs
             /\ IF r.ok THEN Done("compress", "deleteVirtualDrive") ELSE Throw("compress")
    /\ UNCHANGED <<cfgVars, quietVars, mounted, memVars, histVars, pendingRejection, cmds>>

\* index.ts 86: await deleteVirtualDrive(...)
DeleteVirtualDrive ==
    /\ pc = "deleteVirtualDrive"
    /\ \E ioOk \in BOOLEAN :
         LET r == deleteVirtualDrive(fs, ioOk)
         IN  /\ fs' = r.fs
             /\ IF r.ok THEN Done("deleteVirtualDrive", "reloadKey")
                ELSE Throw("deleteVirtualDrive")
    /\ UNCHANGED <<cfgVars, quietVars, mounted, memVars, histVars, pendingRejection, cmds>>

ReloadKey == LoadKeyAt("reloadKey", "encryptRead")

\* cryptography.ts 141-154: read the archive as 'hex', remove it.
EncryptRead ==
    /\ pc = "encryptRead"
    /\ \E ioOk \in BOOLEAN :
         LET r == encryptReadArchive(fs, ioOk)
         IN  /\ fs' = r.fs
             /\ data' = r.data
             /\ archived' = IF r.ok THEN [bytes |-> fs[ZIP_FILE_NAME], whole |-> FALSE]
                             ELSE archived
             /\ IF r.ok THEN Done("encryptRead", "encrypt") ELSE Throw("encryptRead")
    /\ UNCHANGED <<cfgVars, quietVars, mounted, encryptionKey, keyPair, encryptedData, session,
                   startFs, committed, pendingRejection, cmds>>

\* cryptography.ts 157-163: encryptedData = await encrypt(data, KEYPAIR)
Encrypt ==
    /\ pc = "encrypt"
    /\ \E providerOk \in BOOLEAN :
         IF providerOk
         THEN /\ encryptedData' = encrypt(data, keyPair)
              /\ keyPair' = secureWipe(keyPair)
              /\ calls' = calls \o <<"encrypt(keyPair)", "secureWipe(keyPair)">>
              /\ Done("encrypt", "encryptOpen")
         ELSE /\ Throw("encrypt")
              /\ calls' = Append(calls, "encrypt(keyPair)")
              /\ UNCHANGED <<encryptedData, keyPair>>
    /\ UNCHANGED <<cfgVars, inputEvents, handover, diskVars, encryptionKey, data, histVars,
                   pendingRejection, cmds>>

\* cryptography.ts 168, first half of writeFileSync: the file is opened for
\* writing, which creates it or truncates it to no bytes.
EncryptOpen ==
    /\ pc = "encryptOpen"
    /\ \E ioOk \in BOOLEAN :
         IF ioOk
         THEN /\ fs' = [fs EXCEPT ![encryptedFilePath] = <<>>]
              /\ pc' = "encryptWrite"
              /\ UNCHANGED <<steps, failures, exitCode, log>>
         ELSE /\ fs' = fs
              /\ Throw("encryptWrite")
    /\ UNCHANGED <<cfgVars, quietVars, mounted, memVars, histVars, pendingRejection, cmds>>

\* cryptography.ts 168, second half of writeFileSync: the ciphertext is written
\* (a string, so as 'utf8'), and encryptCompressVirtualDrive returns.
EncryptWrite ==
    /\ pc = "encryptWrite"
    /\ \E ioOk \in BOOLEAN :
         IF ioOk
         THEN /\ fs' = [fs EXCEPT ![encryptedFilePath] = utf8Encode(encryptedData)]
              /\ committed' = LET x == extract(hexDecode(data))
                              IN  IF x.ok THEN x.folder ELSE NoFile
              /\ archived' = [archived EXCEPT !.whole = TRUE]
              /\ Done("encryptWrite", "deleteBackup")
         ELSE /\ fs' = fs
              /\ committed' = committed
              /\ archived' = archived
              /\ Throw("encryptWrite")
    /\ UNCHANGED <<cfgVars, quietVars, mounted, memVars, session, startFs, pendingRejection, cmds>>

\* index.ts 96-98: secureWipe(keyPair); deleteBackup(...), not awaited.
DeleteBackup ==
    /\ pc = "deleteBackup"
    /\ \E ioOk \in BOOLEAN :
         LET r == deleteBackup(fs, ENCRYPTED_FILE_PATH, ioOk)
         IN  /\ fs' = r.fs
             /\ pendingRejection' = (pendingRejection \/ ~r.ok)
             /\ failures' = IF r.ok THEN failures ELSE failures \cup {<<"deleteBackup">>}
             /\ log' = IF r.ok THEN log ELSE log \cup {"Backup Error:"}
    /\ keyPair' = secureWipe(keyPair)
    /\ calls' = Append(calls, "secureWipe(keyPair)")
    /\ pc' = "exit0"
    /\ steps' = Append(steps, "deleteBackup")
    /\ UNCHANGED <<cfgVars, inputEvents, handover, mounted, encryptionKey, data, encryptedData, histVars,
                   exitCode, cmds>>

\* index.ts 100: process.exit(0)
Exit0 ==
    /\ pc = "exit0"
    /\ pc' = "exiting"
    /\ exitCode' = 0
    /\ UNCHANGED <<cfgVars, quietVars, diskVars, memVars, histVars, pendingRejection, steps,
                   failures, cmds, log>>

\* index.ts 105-112: process.on('exit', async () => { await cleanup(...) }).
\* The listener runs up to its first await: both removals are done, the unmount
\* command is started, and the process ends without waiting for it.
ExitHandler ==
    /\ pc = "exiting"
    /\ \E rmFolderOk \in BOOLEAN, rmZipOk \in BOOLEAN, cmdOk \in BOOLEAN :
         LET r == cleanup(fs, mounted, os, rmFolderOk, rmZipOk, cmdOk)
         IN  /\ fs' = r.fs
             /\ mounted' = r.mounted
             /\ cmds' = cmds \cup r.cmds
             /\ failures' = failures \cup {<<"exitCleanup", f>> : f \in r.failed}
    /\ log' = log \cup {"Cleaning up..."}
    /\ pc' = "exited"
    /\ steps' = Append(steps, "exitCleanup")
    /\ pendingRejection' = FALSE
    /\ inputEvents' = 0
    /\ UNCHANGED <<cfgVars, calls, handover, memVars, histVars, exitCode>>

\* A rejected promise that nobody holds (an error thrown in the stdin callback,
\* or by the createBackup call) is raised by the runtime as an uncaught
\* exception once the pending work has drained: the process exits with code 1
\* and the 'exit' listeners run.  A runtime that only warns never takes this step.
UnhandledRejection ==
    /\ pc \in Running
    /\ pc = "rejected" \/ pendingRejection
    /\ pc' = "exiting"
    /\ exitCode' = 1
    /\ log' = log \cup {"Uncaught Error"}
    /\ UNCHANGED <<cfgVars, quietVars, diskVars, memVars, histVars, pendingRejection, steps,
                   failures, cmds>>

\* The process is ended by a signal (SIGINT, SIGTERM, SIGKILL, power loss): no
\* handler is registered for any, so no 'exit' listener runs.
Kill ==
    /\ pc \in Running
    /\ pc' = "killed"
    /\ inputEvents' = 0
    /\ UNCHANGED <<cfgVars, calls, handover, diskVars, memVars, histVars, pendingRejection,
                   steps, failures, cmds, exitCode, log>>

\* The user starts the program again, with the same configuration.
NewSession ==
    /\ pc \in Terminal
    /\ session < MaxSessions
    /\ session' = session + 1
    /\ startFs' = fs
    /\ pc' = "validate"
    /\ exitCode' = NoExit
    /\ encryptionKey' = <<>>
    /\ keyPair' = NoKeyPair
    /\ data' = <<>>
    /\ encryptedData' = <<>>
    /\ pendingRejection' = FALSE
    /\ steps' = <<>>
    /\ failures' = {}
    /\ cmds' = {}
    /\ log' = {}
    /\ calls' = <<>>
    /\ inputEvents' = 0
    /\ handover' = [folder |-> NoFile,
                    last |-> IF exitCode = 0 THEN handover.folder ELSE NoFile]
    /\ UNCHANGED <<cfgVars, diskVars, committed, archived>>

Next ==
    \/ Validate
    \/ StartupCleanup
    \/ LoadKey
    \/ CreateBackup
    \/ DecryptContainer
    \/ RemoveEncrypted
    \/ Extract
    \/ RemoveZip
    \/ Mkdir
    \/ Mount
    \/ Open
    \/ UserEdit
    \/ UserRemovesFolder
    \/ UserSignal
    \/ ExtraInput
    \/ Unmount
    \/ Compress
    \/ DeleteVirtualDrive
    \/ ReloadKey
    \/ EncryptRead
    \/ Encrypt
    \/ EncryptOpen
    \/ EncryptWrite
    \/ DeleteBackup
    \/ Exit0
    \/ ExitHandler
    \/ UnhandledRejection
    \/ Kill
    \/ NewSession

Spec == Init /\ [][Next]_vars

-----------------------------------------------------------------------------
(* Properties                                                               *)

ContainerPaths == { "encrypted", "other" }
BackupPaths == { "encrypted.bak", "other.bak" }

Did(step) == \E i \in 1..Len(steps) : steps[i] = step

\* C1: a full session (container present or not at start, the user signals, no
\* step fails) ends with exit code 0, exactly one container file on disk, no
\* working folder, no archive and no backup file.
C1_FullSessionLeavesOneContainer ==
    (pc = "exited" /\ Did("signal") /\ failures = {}) =>
        /\ exitCode = 0
        /\ Cardinality({p \in ContainerPaths : Exists(fs[p])}) = 1
        /\ ~Exists(fs[MOUNT_FOLDER_PATH])
        /\ ~Exists(fs[ZIP_FILE_NAME])
        /\ \A b \in BackupPaths : ~Exists(fs[b])

\* C1 witness: a full session without failures that started with a container.
C1_Witness ==
    /\ pc = "exited" /\ Did("signal") /\ failures = {}
    /\ Exists(startFs[ENCRYPTED_FILE_PATH])
    /\ Did("deleteBackup")

\* The backup path of this configuration.
BackupPath == backupFileName(ENCRYPTED_FILE_PATH)

\* The folder content of the last whole container is recoverable from disk d.
Recoverable(d) ==
    \E p \in ContainerPaths \cup BackupPaths : Recover(d[p], UserSecret) = committed

\* C2: the data committed by the most recent completed session stays
\* recoverable from the container or its backup; in particular a session that
\* starts while the backup is the only copy of that data keeps it recoverable
\* until it has written a container of its own.
C2_OnlyCopyStaysRecoverable ==
    (/\ committed # NoFile
     /\ ~Did("encryptWrite")
     /\ Recover(startFs[BackupPath], UserSecret) = committed
     /\ \A p \in ContainerPaths : Recover(startFs[p], UserSecret) # committed)
        => Recoverable(fs)

\* C3: in a session that started with a container, a backup exists from the
\* removal of the old container until the new container is written, and
\* deleteBackup runs only after encryptCompressVirtualDrive returned.
C3_BackupWhileContainerReplaced ==
    /\ (Exists(startFs[ENCRYPTED_FILE_PATH]) /\ Did("removeEncrypted") /\ ~Did("encryptWrite"))
          => Exists(fs[BackupPath])
    /\ Did("deleteBackup") => Did("encryptWrite")

\* C4: a process killed after createBackup returned and before deleteBackup
\* leaves a backup whose bytes are those the container had before the session.
C4_KilledLeavesExactBackup ==
    (pc = "killed" /\ Did("createBackup") /\ <<"createBackup">> \notin failures
       /\ ~Did("deleteBackup") /\ Exists(startFs[ENCRYPTED_FILE_PATH]))
        => fs[BackupPath] = startFs[ENCRYPTED_FILE_PATH]

\* C5 (decryption case): when decryption fails, the container and any backup
\* that existed before the session still have the content they had then.
C5_DecryptFailureLeavesFiles ==
    <<"decrypt">> \in failures =>
        /\ fs[ENCRYPTED_FILE_PATH] = startFs[ENCRYPTED_FILE_PATH]
        /\ Exists(startFs[BackupPath]) => fs[BackupPath] = startFs[BackupPath]

\* C6: when decryptVirtualDrive fails the container is unchanged: it exists with
\* the bytes it had before the call, and createVirtualDrive does not remove it.
C6_DecryptFailureKeepsContainer ==
    <<"decrypt">> \in failures =>
        /\ Exists(fs[ENCRYPTED_FILE_PATH])
        /\ fs[ENCRYPTED_FILE_PATH] = startFs[ENCRYPTED_FILE_PATH]
        /\ ~Did("removeEncrypted")

\* C6 witness: a session ended by a failed decryption (wrong key or malformed
\* container).
C6_Witness ==
    /\ <<"decrypt">> \in failures
    /\ pc = "exited"
    /\ Recover(startFs[ENCRYPTED_FILE_PATH], UserSecret) = NoFile

\* C7: when a container is present at startup and decryption fails (or the
\* archive is missing after it), the session creates no working folder and runs
\* neither the mount nor the open command.
C7_NoDriveAfterFailedDecrypt ==
    (Exists(startFs[ENCRYPTED_FILE_PATH])
       /\ (<<"decrypt">> \in failures \/ <<"archiveMissing">> \in failures)) =>
        /\ ~Did("extract") /\ ~Did("mkdir") /\ ~Did("mount") /\ ~Did("open")
        /\ "subst" \notin cmds /\ "start" \notin cmds
        /\ Exists(fs[MOUNT_FOLDER_PATH]) => Exists(startFs[MOUNT_FOLDER_PATH])

\* C7 witness: on a platform that can mount, a container that does not decrypt
\* has ended the session with exit code 1.
C7_Witness ==
    /\ os = "win32"
    /\ Exists(startFs[ENCRYPTED_FILE_PATH])
    /\ <<"decrypt">> \in failures
    /\ pc = "exited" /\ exitCode = 1

\* C8: on an unsupported platform nothing on disk is created, changed or
\* deleted and no external command is run.
C8_UnsupportedPlatformMutatesNothing ==
    os # "win32" => (fs = startFs /\ cmds = {})

\* "A single letter A-Z", as the claims use it.
SingleLetter(l) == Len(l) = 1 /\ l[1] \in {"A", "B", "C", "D", "E", "Z"}

\* C9 as stated: with a drive letter that is not a single letter A-Z the process
\* ends with exit code 1 and performs no cleanup, key loading, backup, folder
\* creation or mount.
C9_InvalidDriveDoesNothing ==
    ~SingleLetter(DRIVE_LETTER) =>
        /\ steps = <<>>
        /\ cmds = {}
        /\ fs = startFs
        /\ pc = "exited" => exitCode = 1

\* C9 amended: with such a drive letter the process ends with exit code 1
\* without the startup cleanup, key loading, backup, folder creation or mount;
\* the one thing that still runs is the exit handler's cleanup, which creates
\* nothing and leaves the container, its backup and the key file alone.
C9_InvalidDriveOnlyExitCleanup ==
    ~SingleLetter(DRIVE_LETTER) =>
        /\ steps \in { <<>>, <<"exitCleanup">> }
        /\ cmds \subseteq {"subst /D"}
        /\ encryptionKey = <<>> /\ keyPair = NoKeyPair
        /\ \A p \in ContainerPaths \cup BackupPaths \cup {KEY_FILE_PATH} : fs[p] = startFs[p]
        /\ \A p \in {MOUNT_FOLDER_PATH, ZIP_FILE_NAME} : Exists(fs[p]) => fs[p] = startFs[p]
        /\ pc \in {"validate", "exiting", "exited", "killed"}
        /\ pc = "exited" => exitCode = 1

\* C9 witness: a process given an invalid drive letter has exited with code 1
\* after its exit handler ran.
C9_Witness ==
    /\ ~SingleLetter(DRIVE_LETTER)
    /\ pc = "exited" /\ exitCode = 1
    /\ steps = <<"exitCleanup">>

\* C10: however the process terminated, neither the working folder nor the
\* archive is on disk afterwards, unless a removal itself failed.
C10_NoPlaintextAfterTermination ==
    (pc \in Terminal /\ <<"exitCleanup", "rmFolder">> \notin failures
                     /\ <<"exitCleanup", "rmZip">> \notin failures) =>
        /\ ~Exists(fs[MOUNT_FOLDER_PATH])
        /\ ~Exists(fs[ZIP_FILE_NAME])

\* The steps whose failure is an error thrown to the orchestrator.
ThrowingSteps ==
    { "loadKey", "decrypt", "archiveMissing", "removeEncrypted", "extract", "removeZip",
      "mkdir", "mount", "open", "unmount", "compress", "deleteVirtualDrive", "reloadKey",
      "encryptRead", "encrypt", "encryptWrite" }

StepFailed == \E s \in ThrowingSteps : <<s>> \in failures

\* C11: a failure of any step, before or after the user signal, reaches the
\* top-level error handler, is logged there ("Script error:") and ends the
\* process with exit code 1.
C11_FailureReachesTopLevel ==
    (StepFailed /\ pc \in {"exiting", "exited"}) =>
        /\ "Script error:" \in log
        /\ exitCode = 1

\* The lifecycle steps of the specification, in order, for a session that
\* found a container (withContainer) or did not.  "encryptWrite" is the return
\* of encryptCompressVirtualDrive, "exitCleanup" the cleanup of the exit handler.
Lifecycle(withContainer) ==
    <<"cleanup", "loadKey">>
    \o (IF withContainer THEN <<"decrypt", "extract">> ELSE <<>>)
    \o <<"mount", "open", "signal", "unmount", "compress", "deleteVirtualDrive",
         "reloadKey", "encryptWrite", "exitCleanup">>

LifecycleSteps == {Lifecycle(TRUE)[i] : i \in 1..Len(Lifecycle(TRUE))}

IsLifecycleStep(s) == s \in LifecycleSteps

IsPrefix(a, b) == Len(a) <= Len(b) /\ a = SubSeq(b, 1, Len(a))

\* The lifecycle steps completed by the process itself, without the cleanup of
\* the exit sequence.
Completed == SelectSeq(steps, LAMBDA s : IsLifecycleStep(s) /\ s # "exitCleanup")

C13_FailedUnmountStopsTeardown ==
    <<"unmount">> \in failures =>
        /\ \A s \in {"unmount", "compress", "deleteVirtualDrive", "reloadKey", "encryptRead",
                     "encrypt", "encryptWrite", "deleteBackup"} : ~Did(s)
        /\ "Virtual drive unmounted successfully" \notin log
        /\ "Virtual drive unmounted and compressed" \notin log
        /\ pc \in {"rejected", "exiting", "exited", "killed"}
        /\ exitCode # 0

\* C13 witness: the unmount command failed while the drive was mapped, and the
\* process ended with exit code 1.
C13_Witness ==
    /\ <<"unmount">> \in failures
    /\ Did("signal")
    /\ pc = "exited" /\ exitCode = 1

\* C14: a failing unmount command is swallowed when cleanup issued it (cleanup
\* returns and the caller goes on), and thrown when unmountVirtualDrive issued
\* it in the teardown (the step does not complete and its error is reported).
C14_UnmountFailureSwallowedOnlyInCleanup ==
    /\ <<"cleanup", "unmount">> \in failures => Did("cleanup")
    /\ <<"exitCleanup", "unmount">> \in failures => Did("exitCleanup")
    /\ <<"unmount">> \in failures =>
          /\ ~Did("unmount")
          /\ "Error unmounting virtual drive:" \in log
          /\ pc \notin AfterSignal

\* C14 witness: the startup cleanup could not remove a mapping left by an
\* earlier process, and the session went on to load the key.
C14_Witness ==
    /\ <<"cleanup", "unmount">> \in failures
    /\ Did("loadKey")

\* The sub-steps of cleanup that failed in the startup cleanup (kind =
\* "cleanup") or in the exit handler (kind = "exitCleanup").
FailedIn(kind) == {f \in {"rmFolder", "rmZip", "unmount"} : <<kind, f>> \in failures}

KeyUnusable ==
    \/ ~Exists(fs[KEY_FILE_PATH])
    \/ trim(utf8Decode(fs[KEY_FILE_PATH])) = <<>>

\* C16: with a missing or empty key file the session ends with exit code 1
\* before a backup is made, before the container is read or removed and before
\* a folder is created or a volume mounted; the container is unchanged.
C16_NoKeyNoSession ==
    KeyUnusable =>
        /\ pc \in {"validate", "cleanup", "loadKey", "exiting", "exited", "killed"}
        /\ \A s \in {"loadKey", "createBackup", "decrypt", "removeEncrypted", "extract",
                     "mkdir", "mount", "open"} : ~Did(s)
        /\ \A p \in ContainerPaths \cup BackupPaths : fs[p] = startFs[p]
        /\ Exists(fs[MOUNT_FOLDER_PATH]) => fs[MOUNT_FOLDER_PATH] = startFs[MOUNT_FOLDER_PATH]
        /\ "subst" \notin cmds
        /\ pc = "exited" => exitCode = 1

\* C16 witness: a session that found a container and a key file holding only
\* white space has ended with exit code 1 at the key load.
C16_Witness ==
    /\ Exists(fs[KEY_FILE_PATH]) /\ KeyUnusable
    /\ Exists(startFs[ENCRYPTED_FILE_PATH])
    /\ <<"loadKey">> \in failures
    /\ pc = "exited" /\ exitCode = 1

\* The secret loadKey returns for the key file on disk.
LoadedSecret == trim(utf8Decode(fs[KEY_FILE_PATH]))

\* C17: while the process waits for the user signal it holds neither the
\* secret nor a usable key pair derived before the wait.
C17_NoKeyHeldWhileWaiting ==
    pc = "await" =>
        /\ encryptionKey # LoadedSecret
        /\ keyPair # importKeys(LoadedSecret)

\* C18: once secureWipe has been called on the secret (after the key load) or
\* on the key pair (after the mount, after the encryption), the variable of
\* the caller no longer holds the original value.
C18_WipedValueIsGone ==
    /\ Did("loadKey") => encryptionKey # LoadedSecret
    /\ (Did("mount") \/ Did("encrypt")) => keyPair # importKeys(LoadedSecret)

\* C19: when decryptVirtualDrive has decrypted a container that
\* encryptCompressVirtualDrive wrote under the same key, the archive it writes
\* has the bytes of the archive that was encrypted.
C19_RoundTripReproducesArchive ==
    (pc = "removeEncrypted" /\ archived.whole /\ ENCRYPTED_FILE_PATH = encryptedFilePath) =>
        fs[ZIP_FILE_NAME] = archived.bytes

\* C19 witness: the round trip of an archive that holds a byte above 127.
C19_Witness ==
    /\ pc = "removeEncrypted" /\ archived.whole /\ ENCRYPTED_FILE_PATH = encryptedFilePath
    /\ archived.bytes = <<80, 75, 255>>
    /\ session = 2

\* C20: the path given by --file is where encryptCompressVirtualDrive has
\* written the new container.
C20_ContainerWrittenToFilePath ==
    Did("encryptWrite") => fs[ENCRYPTED_FILE_PATH] = utf8Encode(encryptedData)

\* C21: when a session has exited with code 0 and the next one, run with the
\* same key and the same configuration, has mounted, the working folder holds
\* what it held when the first session unmounted.
C21_NextSessionMountsWhatWasUnmounted ==
    (handover.last # NoFile /\ pc = "open") => fs[MOUNT_FOLDER_PATH] = handover.last

\* The text without the white space before its first and after its last
\* character that is not white space.
StripWhite(text) ==
    LET solid == {i \in 1..Len(text) : ~IsWhite(text[i])}
    IN  IF solid = {} THEN <<>>
        ELSE SubSeq(text, CHOOSE i \in solid : \A j \in solid : i <= j,
                          CHOOSE i \in solid : \A j \in solid : j <= i)

\* The text of the key file, empty when there is no key file.
KeyText == IF Exists(fs[KEY_FILE_PATH]) THEN utf8Decode(fs[KEY_FILE_PATH]) ELSE <<>>

\* C22: what loadKey returns is the content of the key file without its
\* leading and trailing white space, and is not empty; with a key file that is
\* missing or holds only white space loadKey does not return, it throws.
C22_LoadKeyReturnsTrimmedContent ==
    \A stripped \in {StripWhite(KeyText)} :
        /\ (Did("loadKey") \/ Did("reloadKey")) =>
               /\ encryptionKey = stripped
               /\ encryptionKey # <<>>
        /\ stripped = <<>> =>
               /\ ~Did("loadKey")
               /\ (Did("cleanup") /\ pc \in {"exiting", "exited"}) =>
                      <<"loadKey">> \in failures

\* C22 witness: a key file with white space on both sides of the secret has
\* been loaded, and the secret alone was returned.
C22_Witness ==
    /\ Did("loadKey")
    /\ fs[KEY_FILE_PATH] = <<32, 107, 10>>
    /\ encryptionKey = <<107>>

\* C23: when the extraction of the archive has failed, the container is still
\* on disk: it is only removed once the archive has been extracted.
C23_ContainerKeptUntilExtracted ==
    /\ <<"extract">> \in failures => Exists(fs[ENCRYPTED_FILE_PATH])
    /\ Did("removeEncrypted") => (Did("extract") \/ pc = "extract")

\* C24: a failure of createBackup or of deleteBackup is observed by the
\* orchestrator: after a failed createBackup no later step of the startup is
\* started, and a session whose deleteBackup failed does not end with exit
\* code 0.
C24_BackupFailureIsObserved ==
    /\ <<"createBackup">> \in failures =>
           \A s \in {"decrypt", "mkdir", "mount", "open", "signal"} : ~Did(s)
    /\ (<<"deleteBackup">> \in failures /\ pc = "exited") => exitCode # 0

\* C25: in both key-loading steps secureWipe is called on the secret only
\* after importKeys has derived the key pair from the secret of that load.
C25_SecretScrubbedAfterDerivation ==
    \A i \in 1..Len(calls) :
        calls[i] = "secureWipe(encryptionKey)" =>
            \E j \in 1..(i - 1) :
                /\ calls[j] = "importKeys(encryptionKey)"
                /\ \A k \in (j + 1)..(i - 1) : calls[k] # "loadKey"

\* What one run of a cleanup leaves when all that it tried succeeded: no
\* working folder, no archive and, on win32, the unmount command issued.
CleanedBy(kind) ==
    FailedIn(kind) = {} =>
        /\ ~Exists(fs[MOUNT_FOLDER_PATH])
        /\ ~Exists(fs[ZIP_FILE_NAME])
        /\ os = "win32" => ("subst /D" \in cmds /\ ~mounted)

\* C26: cleanup is idempotent: in every state in which the program runs it (at
\* startup, in the exit handler), and for every way its removals and its
\* command can go, a second run of cleanup would leave the files and the mount
\* that the first run leaves.  The cleanup at
\* startup and the one of the exit handler do the same to the same paths.
C26_CleanupIsIdempotent ==
    /\ pc \in {"cleanup", "exiting"} =>
         \A rmFolderOk \in BOOLEAN, rmZipOk \in BOOLEAN, cmdOk \in BOOLEAN :
         \A once \in {cleanup(fs, mounted, os, rmFolderOk, rmZipOk, cmdOk)} :
         \A twice \in {cleanup(once.fs, once.mounted, os, rmFolderOk, rmZipOk, cmdOk)} :
             /\ twice.fs = once.fs
             /\ twice.mounted = once.mounted
             /\ twice.cmds = once.cmds
    /\ pc = "loadKey" => CleanedBy("cleanup")
    /\ pc = "exited" => CleanedBy("exitCleanup")

\* C26 witness: a session that starts on the folder and the archive an
\* interrupted session left, after its startup cleanup has removed both.
C26_Witness ==
    /\ pc = "loadKey"
    /\ Exists(startFs[MOUNT_FOLDER_PATH]) /\ Exists(startFs[ZIP_FILE_NAME])
    /\ ~Exists(fs[MOUNT_FOLDER_PATH]) /\ ~Exists(fs[ZIP_FILE_NAME])

\* The steps of the teardown sequence, as the stdin callback runs them.
TeardownSteps == {"unmount", "compress", "deleteVirtualDrive", "reloadKey", "encryptRead",
                  "encrypt", "encryptOpen", "encryptWrite", "deleteBackup"}

\* How many times a step has completed in this process.
Count(step) == Cardinality({i \in 1..Len(steps) : steps[i] = step})

\* C27: the teardown is started by a user input event, at most once in a
\* session however many input events arrive, and only after mount and open
\* have both completed, in that order: no step of the teardown runs twice,
\* and none runs or fails without the signal having been taken.
C27_TeardownStartedOnceAfterOpen ==
    /\ \A i \in 1..Len(steps) :
         steps[i] \in TeardownSteps \cup {"signal"} =>
             \A j \in (i + 1)..Len(steps) : steps[j] # steps[i]
    /\ \A taken \in {Did("signal")} :
         /\ \A i \in 1..Len(steps) : steps[i] \in TeardownSteps => taken
         /\ \A f \in failures : f[1] \in TeardownSteps => taken
         /\ pc \in AfterSignal => (taken /\ inputEvents >= 1)
         /\ inputEvents >= 1 => taken
    /\ \A k \in 1..Len(steps) :
         steps[k] = "signal" =>
             \E j \in 1..(k - 1) :
                 /\ steps[j] = "open"
                 /\ \E i \in 1..(j - 1) : steps[i] = "mount"

\* C27 witness: the teardown has run through the encryption once, in a session
\* whose standard input emitted a second event while the teardown ran.
C27_Witness ==
    /\ pc = "deleteBackup"
    /\ inputEvents = 2
    /\ Count("signal") = 1 /\ Count("unmount") = 1 /\ Count("encryptWrite") = 1

\* A step of the session proper has failed: any failure but those of the
\* sub-steps of the two cleanups, which cleanup swallows by design.
SessionStepFailed == \E f \in failures : Len(f) = 1

\* C28: a session that took the user input and has ended has ended with exit
\* code 0 exactly when every one of its steps succeeded.
C28_ExitZeroIffEveryStepSucceeded ==
    (Did("signal") /\ pc = "exited") => (exitCode = 0 <=> ~SessionStepFailed)

\* C29: compressVirtualDrive completes only on a working folder that exists,
\* and then the archive is the archive of that folder; when it has failed on a
\* missing folder no archive was written (the archive path holds what it held
\* when the session started, or nothing); the folder is deleted only after
\* compressVirtualDrive has completed.
C29_FolderDeletedOnlyAfterArchive ==
    /\ pc = "deleteVirtualDrive" =>
           /\ Exists(fs[MOUNT_FOLDER_PATH])
           /\ fs[ZIP_FILE_NAME] = archiveFolder(fs[MOUNT_FOLDER_PATH])
    /\ (pc = "rejected" /\ <<"compress">> \in failures /\ ~Exists(fs[MOUNT_FOLDER_PATH])) =>
           fs[ZIP_FILE_NAME] \in {NoFile, startFs[ZIP_FILE_NAME]}
    /\ <<"compress">> \in failures => ~Did("deleteVirtualDrive")
    /\ (Did("deleteVirtualDrive") \/ <<"deleteVirtualDrive">> \in failures) => Did("compress")

\* C29 witness: the working folder was gone when the teardown reached
\* compressVirtualDrive; it has thrown and there is no archive.
C29_Witness ==
    /\ pc = "rejected"
    /\ <<"compress">> \in failures
    /\ Did("unmount")
    /\ ~Exists(fs[MOUNT_FOLDER_PATH])
    /\ ~Exists(fs[ZIP_FILE_NAME])

\* The working folder a previous process left is still there: the startup
\* cleanup could not remove it.
StaleFolderKept == Exists(startFs[MOUNT_FOLDER_PATH]) /\ "rmFolder" \in FailedIn("cleanup")

NoContainerAtStart == ~Exists(startFs[ENCRYPTED_FILE_PATH])

\* What C31 says of createBackup and of the decryption: without a container
\* createBackup neither fails nor writes a backup file, and createVirtualDrive
\* neither decrypts nor extracts.
NoContainerIsSkipped ==
    /\ <<"createBackup">> \notin failures
    /\ (Did("createBackup") /\ pc \in BeforeSignal \cup {"await"}) =>
           fs[BackupPath] = startFs[BackupPath]
    /\ \A s \in {"decrypt", "removeEncrypted", "extract", "removeZip"} :
           ~Did(s) /\ <<s>> \notin failures
    /\ <<"archiveMissing">> \notin failures

C33_SessionDataStaysOnDisk ==
    (handover.folder # NoFile /\ pc \in AfterSignal \cup {"rejected"}) =>
        \/ fs[MOUNT_FOLDER_PATH] = handover.folder
        \/ fs[ZIP_FILE_NAME] = archiveFolder(handover.folder)
        \/ Recover(fs[encryptedFilePath], LoadedSecret) = handover.folder

\* C34: once the container found at startup has been removed, and until the
\* session deletes its backup at the end, the backup file holds the content
\* that container had; after a failed createBackup the container is not
\* removed.
C34_ContainerRemovedOnlyWithBackup ==
    /\ (Did("removeEncrypted") /\ ~Did("deleteBackup")) =>
           fs[BackupPath] = startFs[ENCRYPTED_FILE_PATH]
    /\ <<"createBackup">> \in failures => ~Did("removeEncrypted")

\* What the container found at startup holds under the key of the key file;
\* nothing when there was no container.
ContainerContent ==
    IF NoContainerAtStart THEN <<>>
    ELSE Recover(startFs[ENCRYPTED_FILE_PATH], LoadedSecret)

====
